---------------------------- MODULE Spec2Model ----------------------------
(***************************************************************************)
(* A model of the EWD county-alert pipelines:                              *)
(*   src/utils_public_layer.py          get_json, pick_polygon_layer,      *)
(*                                      query_all, batched, apply_updates  *)
(*   src/county_alert_summary_public.py the status-summary driver          *)
(*   src/one_time_enrich_ugc_public.py  the code-assignment driver         *)
(*                                                                         *)
(* The program is single-threaded; pc is its position.  The remote         *)
(* services are the environment: every get_json call either raises         *)
(* (pc = "raised") or returns a body drawn from a small set of bodies.     *)
(* The records of a page are drawn when the loop reaches them: the page    *)
(* fixes how many there are, the loop body never looks ahead.              *)
(*                                                                         *)
(* Text is a sequence of one-character strings, so that lower(), "in",     *)
(* sorted(), join() and re.sub() are computed character by character.      *)
(* NoText stands for Python's None where text is expected.                 *)
(***************************************************************************)
EXTENDS Integers, Sequences, FiniteSets, TLC

VARIABLES
    pc,            \* position of the program
    driver,        \* which main() runs: "summary", "enrich", or "none"
    scope,         \* which pools of inputs the environment draws from
    allow_events,  \* ALLOW_EVENTS
    layer,         \* main: (layer_id, oid_field) from pick_polygon_layer
    reads,         \* history: number of GET calls made so far
    raisedBy,      \* history: the call that raised, "" while none has
    url,           \* cursor loops: the URL to read next (NoUrl: absent)
    data,          \* cursor loops: the page in hand
    idx,           \* cursor loops: records of the page in hand done so far
    pages,         \* history: number of pages the cursor loop has read
    pageLog,       \* history: the pages read by the cursor loop, in order
    visitLog,      \* history: <<page, index>> of each record visited
    feedLog,       \* history: the records the feed delivered, in order
    cur,           \* the record the loop body has in hand
    agg,           \* summary main: ugc -> {"warn", "watch", "adv"} sets
    seenTokens,    \* history: UGC tokens that came in accepted alerts
    yielded,       \* history: the alerts the generator yielded, in order
    by_state,      \* build_zone_index: state -> normalized name -> ugc
    store_n,       \* environment: number of rows of the region store
    page_cap,      \* environment: the store's limit on rows per page
    offset,        \* query_all: resultOffset of the next request
    qdata,         \* query_all: number of features of the page in hand
    qidx,          \* query_all: features of the page in hand yielded so far
    queryLog,      \* history: <<resultOffset, features returned>> per request
    county_count,  \* main: records read from the store
    matched_count, \* enrich main: records matched
    printed,       \* history: diagnostic lines printed per record
    updates,       \* main / apply_updates: the list of update records
    batch,         \* apply_updates: the batch size
    k,             \* apply_updates: index of the batch the for loop is at
    total,         \* apply_updates: running total of confirmed successes
    js,            \* apply_updates: the response being inspected
    result,        \* apply_updates: the value returned (None before return)
    submitted,     \* history: the batches POSTed so far, in order
    respLog,       \* history: shape and marked-successful count per response
    sleeps         \* history: number of time.sleep calls made

ctlVars == <<driver, scope, allow_events, store_n, page_cap>>
cursorVars == <<url, data, idx, pages, pageLog, visitLog, feedLog>>
alertVars == <<agg, seenTokens, yielded>>
queryVars == <<offset, qdata, qidx, queryLog>>
mainVars == <<county_count, matched_count, printed>>
applyVars == <<batch, k, total, js, result, submitted, respLog, sleeps>>
vars == <<pc, ctlVars, layer, reads, raisedBy, cursorVars, cur, alertVars,
          by_state, queryVars, mainVars, updates, applyVars>>

None == "None"
NoPage == [n |-> 0, next |-> "NoUrl"]
NoRecord == [none |-> TRUE]
NoUrl == "NoUrl"
NoText == <<"None">>

(***************************************************************************)
(* Bounds of the model.                                                    *)
(***************************************************************************)
MaxUpdates == 4   \* longest update list handed to apply_updates on its own
MaxBatch == 3     \* largest batch size tried
MaxResults == 2   \* longest updateResults list the server answers with
MaxPages == 2     \* longest feed, in pages, when histories are kept
MaxFeatures == 2  \* most records on one feed page
MaxAlerts == 3    \* most alerts on the page of the alert feed on its own
MaxRegions == 2   \* most rows in the region store
MaxCap == 2       \* largest per-page limit of the region store

Min(a, b) == IF a < b THEN a ELSE b

RECURSIVE SumSeq(_)
SumSeq(s) == IF s = <<>> THEN 0 ELSE Head(s) + SumSeq(Tail(s))

RECURSIVE Flatten(_)
Flatten(ss) == IF ss = <<>> THEN <<>> ELSE Head(ss) \o Flatten(Tail(ss))

Range(s) == {s[i] : i \in DOMAIN s}

(***************************************************************************)
(* Text.                                                                   *)
(***************************************************************************)
UpperCase == <<"A","B","C","D","E","F","G","H","I","J","K","L","M",
               "N","O","P","Q","R","S","T","U","V","W","X","Y","Z">>
LowerCase == <<"a","b","c","d","e","f","g","h","i","j","k","l","m",
               "n","o","p","q","r","s","t","u","v","w","x","y","z">>
Digits == <<"0","1","2","3","4","5","6","7","8","9">>

\* the characters of the model in code point order
CodeOrder == <<" ", "'", "-", ".">> \o Digits \o <<";">> \o UpperCase
             \o <<"_">> \o LowerCase

Ord(c) == CHOOSE i \in 1..Len(CodeOrder) : CodeOrder[i] = c

\* str.lower(), one character
lower_char(c) ==
    IF \E i \in 1..26 : UpperCase[i] = c
    THEN LowerCase[CHOOSE i \in 1..26 : UpperCase[i] = c]
    ELSE c

\* str.lower()
lower(s) == [i \in 1..Len(s) |-> lower_char(s[i])]

\* sub in s
contains(s, sub) ==
    \E i \in 0..(Len(s) - Len(sub)) : SubSeq(s, i + 1, i + Len(sub)) = sub

\* s[i:].startswith(w), i counted from 1
starts_at(s, i, w) ==
    /\ i + Len(w) - 1 <= Len(s)
    /\ SubSeq(s, i, i + Len(w) - 1) = w

\* a < b on str: by code point, a proper prefix first
RECURSIVE str_less(_, _)
str_less(a, b) ==
    IF a = <<>> THEN b # <<>>
    ELSE IF b = <<>> THEN FALSE
    ELSE IF Head(a) = Head(b) THEN str_less(Tail(a), Tail(b))
    ELSE Ord(Head(a)) < Ord(Head(b))

\* sorted(S) raises TypeError: None is compared with a str
sorted_raises(S) == NoText \in S /\ Cardinality(S) >= 2

\* sorted(S) for a set of text
RECURSIVE sorted(_)
sorted(S) ==
    IF S = {} THEN <<>>
    ELSE LET m == CHOOSE x \in S : \A y \in S \ {x} : str_less(x, y)
         IN  <<m>> \o sorted(S \ {m})

\* sep.join(list) raises TypeError: an item is None
join_raises(list) == \E i \in 1..Len(list) : list[i] = NoText

\* sep.join(list)
RECURSIVE join(_, _)
join(sep, list) ==
    IF list = <<>> THEN <<>>
    ELSE IF Len(list) = 1 THEN list[1]
    ELSE list[1] \o sep \o join(sep, Tail(list))

(***************************************************************************)
(* utils_public_layer.py                                                   *)
(***************************************************************************)

\* get_json raises: requests fails, raise_for_status, or the body is no JSON
raise(who) ==
    /\ pc' = "raised"
    /\ raisedBy' = who

(***************************************************************************)
(* pick_polygon_layer: one read of the service root and one per layer; the *)
(* polygon layers are candidates, scored 2 when the name says county, and  *)
(* the best score wins, the lowest id among equals.                        *)
(***************************************************************************)
Layer(id, polygon, county, hasOid, oid) ==
    [id |-> id, polygon |-> polygon, county |-> county,
     hasOid |-> hasOid, objectIdField |-> oid]

Catalogs ==
    { <<>>,
      <<Layer(0, FALSE, FALSE, TRUE, "FID")>>,
      <<Layer(0, TRUE, TRUE, FALSE, "")>>,
      <<Layer(0, TRUE, FALSE, TRUE, "OBJECTID"), Layer(1, TRUE, TRUE, TRUE, "FID")>>,
      <<Layer(1, TRUE, TRUE, TRUE, "FID"), Layer(0, TRUE, TRUE, TRUE, "OBJECTID")>> }

candidates(layers) ==
    {[score |-> IF layers[i].county THEN 2 ELSE 1, info |-> layers[i]] :
        i \in {j \in 1..Len(layers) : layers[j].polygon}}

\* candidates.sort(key=lambda x: (-x[0], x[1])); candidates[0]
best_candidate(cands) ==
    CHOOSE c \in cands : \A d \in cands :
        \/ c.score > d.score
        \/ c.score = d.score /\ c.info.id <= d.info.id

\* layer_info.get("objectIdField", "OBJECTID")
oid_field_of(info) == IF info.hasOid THEN info.objectIdField ELSE "OBJECTID"

pick_polygon_layer ==
    /\ pc = "main_start"
    /\ \E layers \in Catalogs :
          \/ \* one of the 1 + len(layers) reads raises
             /\ \E n \in 1..(1 + Len(layers)) : reads' = reads + n
             /\ raise("catalog")
             /\ UNCHANGED <<layer, cursorVars>>
          \/ /\ candidates(layers) = {}
             /\ reads' = reads + 1 + Len(layers)
             /\ raise("no polygon layers")
             /\ UNCHANGED <<layer, cursorVars>>
          \/ /\ candidates(layers) # {}
             /\ reads' = reads + 1 + Len(layers)
             /\ layer' = [id |-> best_candidate(candidates(layers)).info.id,
                          oid_field |-> oid_field_of(
                              best_candidate(candidates(layers)).info)]
             /\ raisedBy' = raisedBy
             /\ IF driver = "summary"
                THEN /\ pc' = "feed_loop"
                     /\ url' = "alerts"
                ELSE /\ pc' = "zone_loop"
                     /\ url' = "zones"
             /\ UNCHANGED <<data, idx, pages, pageLog, visitLog, feedLog>>
    /\ UNCHANGED <<ctlVars, cur, alertVars, by_state, queryVars, mainVars,
                   updates, applyVars>>

(***************************************************************************)
(* batched(iterable, n): append each item to the pending batch, yield the  *)
(* batch when its length equals n, and yield a non-empty remainder last.   *)
(***************************************************************************)
\* batched without its trailing "if batch: yield batch"
RECURSIVE batched_from_no_tail(_, _, _, _)
batched_from_no_tail(items, n, i, acc) ==
    IF i > Len(items)
    THEN <<>>
    ELSE LET acc2 == Append(acc, items[i])
         IN  IF Len(acc2) = n
             THEN <<acc2>> \o batched_from_no_tail(items, n, i + 1, <<>>)
             ELSE batched_from_no_tail(items, n, i + 1, acc2)

RECURSIVE batched_from(_, _, _, _)
batched_from(items, n, i, acc) ==
    IF i > Len(items)
    THEN (IF acc # <<>> THEN <<acc>> ELSE <<>>)
    ELSE LET acc2 == Append(acc, items[i])
         IN  IF Len(acc2) = n
             THEN <<acc2>> \o batched_from(items, n, i + 1, <<>>)
             ELSE batched_from(items, n, i + 1, acc2)

batched(items, n) == batched_from(items, n, 1, <<>>)

(***************************************************************************)
(* Bodies the apply-edits endpoint can answer with.  A body has or lacks   *)
(* the key "error", has or lacks the key "updateResults"; each entry of    *)
(* updateResults carries success true, success false, or no success key.   *)
(***************************************************************************)
SuccessValues == {"true", "false", "missing"}

ResultLists == UNION {[1..n -> SuccessValues] : n \in 0..MaxResults}

ApplyBodies ==
    {[error |-> e, hasResults |-> TRUE, updateResults |-> r] :
        e \in BOOLEAN, r \in ResultLists}
    \cup {[error |-> e, hasResults |-> FALSE, updateResults |-> <<>>] :
        e \in BOOLEAN}

FewBodies ==
    { [error |-> TRUE, hasResults |-> FALSE, updateResults |-> <<>>],
      [error |-> FALSE, hasResults |-> FALSE, updateResults |-> <<>>],
      [error |-> FALSE, hasResults |-> TRUE, updateResults |-> <<"true">>],
      [error |-> FALSE, hasResults |-> TRUE, updateResults |-> <<"false", "true">>] }

BodyPool == IF scope = "apply" THEN ApplyBodies ELSE FewBodies

\* r.get("success") is truthy
marked_success(r) == r = "true"

\* counting every entry of updateResults, successful or not
count_all_results(body) == Len(body.updateResults)

\* len([r for r in js["updateResults"] if r.get("success")])
count_successes(body) ==
    Cardinality({i \in DOMAIN body.updateResults :
                    marked_success(body.updateResults[i])})

\* history entry of a response: its shape and how many entries say success
Shape(body) ==
    IF body.error THEN "error"
    ELSE IF body.hasResults THEN "results" ELSE "other"

Marked(body) ==
    Cardinality({i \in 1..Len(body.updateResults) :
                    body.updateResults[i] = "true"})

(***************************************************************************)
(* apply_updates                                                           *)
(***************************************************************************)
notApply == <<ctlVars, layer, reads, cursorVars, cur, alertVars, by_state,
              queryVars, mainVars, updates>>

\* the POST tried again when the transport fails
apply_submit_retry ==
    /\ pc = "apply_loop"
    /\ k <= Len(batched(updates, batch))
    /\ submitted' = Append(submitted, batched(updates, batch)[k])
    /\ \/ \E body \in BodyPool :
            /\ js' = body
            /\ respLog' = Append(respLog,
                            [shape |-> Shape(body), marked |-> Marked(body)])
            /\ pc' = "apply_inspect"
       \/ /\ Len(submitted) < MaxUpdates
          /\ UNCHANGED <<pc, js, respLog>>
    /\ UNCHANGED <<batch, k, total, result, sleeps, raisedBy, notApply>>

\* for b in batched(updates, batch): js = get_json(apply_url, "POST", data)
apply_submit ==
    /\ pc = "apply_loop"
    /\ k <= Len(batched(updates, batch))
    /\ submitted' = Append(submitted, batched(updates, batch)[k])
    /\ \/ \E body \in BodyPool :
            /\ js' = body
            /\ respLog' = Append(respLog,
                            [shape |-> Shape(body), marked |-> Marked(body)])
            /\ pc' = "apply_inspect"
            /\ raisedBy' = raisedBy
       \/ /\ raise("applyEdits")
          /\ UNCHANGED <<js, respLog>>
    /\ UNCHANGED <<batch, k, total, result, sleeps, notApply>>

\* the tests on js taken in the other order: "updateResults" before "error"
apply_inspect_results_first ==
    /\ pc = "apply_inspect"
    /\ IF js.hasResults
       THEN /\ total' = total + count_successes(js)
            /\ pc' = "apply_sleep"
            /\ UNCHANGED result
       ELSE /\ result' = total
            /\ pc' = "returned"
            /\ UNCHANGED total
    /\ UNCHANGED <<batch, k, js, submitted, respLog, sleeps, raisedBy, notApply>>

\* the two tests on js: "error" in js, "updateResults" in js
apply_inspect ==
    /\ pc = "apply_inspect"
    /\ IF js.error
       THEN /\ result' = total
            /\ pc' = "returned"
            /\ UNCHANGED total
       ELSE IF js.hasResults
       THEN /\ total' = total + count_successes(js)
            /\ pc' = "apply_sleep"
            /\ UNCHANGED result
       ELSE /\ result' = total
            /\ pc' = "returned"
            /\ UNCHANGED total
    /\ UNCHANGED <<batch, k, js, submitted, respLog, sleeps, raisedBy, notApply>>

\* the pause made between batches only, not after the last one
apply_sleep_between ==
    /\ pc = "apply_sleep"
    /\ sleeps' = IF k < Len(batched(updates, batch)) THEN sleeps + 1 ELSE sleeps
    /\ k' = k + 1
    /\ pc' = "apply_loop"
    /\ UNCHANGED <<batch, total, js, result, submitted, respLog, raisedBy,
                   notApply>>

\* time.sleep(sleep), then the for loop takes the next batch
apply_sleep ==
    /\ pc = "apply_sleep"
    /\ sleeps' = sleeps + 1
    /\ k' = k + 1
    /\ pc' = "apply_loop"
    /\ UNCHANGED <<batch, total, js, result, submitted, respLog, raisedBy,
                   notApply>>

\* the for loop is exhausted: return total
apply_return ==
    /\ pc = "apply_loop"
    /\ k > Len(batched(updates, batch))
    /\ result' = total
    /\ pc' = "returned"
    /\ UNCHANGED <<batch, k, total, js, submitted, respLog, sleeps, raisedBy,
                   notApply>>


(***************************************************************************)
(* query_all, against a store of store_n rows that serves at most page_cap *)
(* rows per request, from the requested offset on.  Row r of the store is  *)
(* the r-th record; its attributes are drawn when the loop yields it.      *)
(***************************************************************************)
QueryChunk == 5000

\* the number of features of the page the store serves at an offset
served(off) ==
    LET left == IF store_n > off THEN store_n - off ELSE 0
    IN  Min(Min(page_cap, QueryChunk), left)

\* query_all taking a failed read for an empty page
query_read_swallow ==
    /\ pc = "query_loop"
    /\ reads' = reads + 1
    /\ \/ /\ raisedBy' = "query"
          /\ pc' = "after_query"
          /\ UNCHANGED queryVars
       \/ /\ queryLog' = Append(queryLog, <<offset, served(offset)>>)
          /\ qdata' = served(offset)
          /\ qidx' = 0
          /\ pc' = IF served(offset) = 0 THEN "after_query" ELSE "query_page"
          /\ UNCHANGED <<offset, raisedBy>>
    /\ UNCHANGED <<ctlVars, layer, cursorVars, cur, alertVars, by_state,
                   mainVars, updates, applyVars>>

\* js = get_json(layer_query_url, params); feats = js.get("features", [])
query_read ==
    /\ pc = "query_loop"
    /\ reads' = reads + 1
    /\ \/ /\ raise("query")
          /\ UNCHANGED queryVars
       \/ /\ queryLog' = Append(queryLog, <<offset, served(offset)>>)
          /\ qdata' = served(offset)
          /\ qidx' = 0
          /\ pc' = IF served(offset) = 0 THEN "after_query" ELSE "query_page"
          /\ UNCHANGED <<offset, raisedBy>>
    /\ UNCHANGED <<ctlVars, layer, cursorVars, cur, alertVars, by_state,
                   mainVars, updates, applyVars>>

\* the offset advanced by the number of records asked for: offset += chunk
query_next_by_chunk ==
    /\ pc = "query_page"
    /\ qidx = qdata
    /\ offset' = offset + QueryChunk
    /\ pc' = "query_loop"
    /\ UNCHANGED <<qdata, qidx, queryLog>>
    /\ UNCHANGED <<ctlVars, layer, reads, raisedBy, cursorVars, cur, alertVars,
                   by_state, mainVars, updates, applyVars>>

\* the for loop over feats is exhausted: offset += len(feats)
query_next ==
    /\ pc = "query_page"
    /\ qidx = qdata
    /\ offset' = offset + qdata
    /\ pc' = "query_loop"
    /\ UNCHANGED <<qdata, qidx, queryLog>>
    /\ UNCHANGED <<ctlVars, layer, reads, raisedBy, cursorVars, cur, alertVars,
                   by_state, mainVars, updates, applyVars>>

(***************************************************************************)
(* county_alert_summary_public.py                                          *)
(***************************************************************************)
WARNING == <<"w","a","r","n","i","n","g">>
WATCH == <<"w","a","t","c","h">>

\* ww_tag with the two tests in the other order
ww_tag_watch_first(event_text) ==
    LET e == lower(IF event_text = NoText THEN <<>> ELSE event_text)
    IN  IF contains(e, WATCH) THEN "watch"
        ELSE IF contains(e, WARNING) THEN "warning"
        ELSE "advisory"

\* ww_tag: (event_text or "").lower(), then the two substring tests
ww_tag(event_text) ==
    LET e == lower(IF event_text = NoText THEN <<>> ELSE event_text)
    IN  IF contains(e, WARNING) THEN "warning"
        ELSE IF contains(e, WATCH) THEN "watch"
        ELSE "advisory"

(***************************************************************************)
(* The alerts the feed can deliver: properties with or without an event,   *)
(* with or without a geocode, with or without its UGC list.                *)
(***************************************************************************)
L_Both == <<"W","a","t","c","h"," ","W","A","R","N","I","N","G">>
L_Warn == <<"I","c","e"," ","W","a","r","n","i","n","g">>
L_Watch == <<"F","o","g"," ","w","a","t","c","h">>
L_Adv == <<"H","e","a","t">>
L_Empty == <<>>

TXC == <<"T","X","C","0","0","1">>
AKC == <<"A","K","C">>
TXZ == <<"T","X","Z","0","0","1">>
CC == <<"C","C">>
LowC == <<"t","x","c","0","0","1">>

Alert(event, hasGeocode, hasUGC, UGC) ==
    [event |-> event, hasGeocode |-> hasGeocode, hasUGC |-> hasUGC, UGC |-> UGC]

UgcLists == { <<TXC>>, <<TXC, AKC>>, <<TXZ, AKC>>, <<CC, LowC>>, <<AKC, AKC>> }

Labels == {L_Both, L_Watch, L_Adv, NoText}

AllAlerts ==
    {Alert(e, TRUE, TRUE, u) : e \in Labels, u \in UgcLists}
    \cup {Alert(e, FALSE, FALSE, <<>>) : e \in Labels}
    \cup {Alert(e, TRUE, FALSE, <<>>) : e \in Labels}

FewAlerts ==
    { Alert(L_Both, TRUE, TRUE, <<TXC>>),
      Alert(NoText, TRUE, TRUE, <<AKC, TXZ>>),
      Alert(L_Empty, FALSE, FALSE, <<>>) }

\* a label that differs from L_Both in case only
L_BothLower == <<"w","a","t","c","h"," ","w","a","r","n","i","n","g">>

\* alerts for the runs that are about the allow-list
FilterAlerts ==
    {Alert(e, TRUE, TRUE, <<TXC>>) : e \in {L_Both, L_BothLower, NoText}}

\* the values ALLOW_EVENTS is configured with
AllowLists == { {}, {L_Both} }

AlertPool ==
    IF scope = "alerts" THEN AllAlerts
    ELSE IF scope = "filter" THEN FilterAlerts
    ELSE FewAlerts

\* the feeds are at most PagesCap pages long; otherwise a feed may go on
\* for ever, and the histories that would grow with it are not kept
Bounded == scope # "unbounded"

\* the histories of the cursor loops are kept
KeepLogs == scope \in {"alerts", "feeds", "filter", "zones"}

\* the histories of the records themselves are kept
KeepRecords == scope \in {"filter", "zones"}

\* the zone feed on its own delivers at most MaxZoneRecords records
MaxZoneRecords == 3

\* the alert feed on its own is one page of any MaxFeatures alerts
PagesCap == IF scope = "alerts" THEN 1 ELSE MaxPages

FeaturesCap == IF scope = "alerts" THEN MaxAlerts ELSE MaxFeatures

StartUrl == IF driver = "summary" THEN "alerts" ELSE "zones"

\* what pagination.next of a page can hold
NextLinks == IF Bounded THEN {NoUrl, "page2"} ELSE {NoUrl, "page2", StartUrl}

\* (p.get("geocode") or {}).get("UGC") or []
ugcs_of(p) == IF p.hasGeocode /\ p.hasUGC THEN p.UGC ELSE <<>>

\* the test on a token with the length test off by one
is_county_len3(u) == Len(u) > 3 /\ u[3] = "C"

\* len(u) > 2 and u[2] == "C"
is_county(u) == Len(u) > 2 /\ u[3] = "C"

\* [u for u in ugcs if len(u) > 2 and u[2] == "C"]
county_ugcs(p) == SelectSeq(ugcs_of(p), is_county)

EmptyRec == [warn |-> {}, watch |-> {}, adv |-> {}]

\* the if/elif/else on tag, adding to every tier at or below the tag's
add_label_cumulative(rec, tag, event_name) ==
    IF tag = "warning"
    THEN [rec EXCEPT !.warn = @ \cup {event_name}, !.watch = @ \cup {event_name}]
    ELSE IF tag = "watch" THEN [rec EXCEPT !.watch = @ \cup {event_name}]
    ELSE [rec EXCEPT !.adv = @ \cup {event_name}]

\* the if/elif/else on tag: rec[...].add(event_name)
add_label(rec, tag, event_name) ==
    IF tag = "warning" THEN [rec EXCEPT !.warn = @ \cup {event_name}]
    ELSE IF tag = "watch" THEN [rec EXCEPT !.watch = @ \cup {event_name}]
    ELSE [rec EXCEPT !.adv = @ \cup {event_name}]

\* agg.setdefault(ugc, {...}) and the add, for one ugc
touch(a, ugc, tag, event_name) ==
    [u \in DOMAIN a \cup {ugc} |->
        IF u = ugc
        THEN add_label(IF ugc \in DOMAIN a THEN a[ugc] ELSE EmptyRec,
                       tag, event_name)
        ELSE a[u]]

\* for ugc in county_ugcs: ...
RECURSIVE touch_all(_, _, _, _)
touch_all(a, list, tag, event_name) ==
    IF list = <<>> THEN a
    ELSE touch_all(touch(a, Head(list), tag, event_name), Tail(list),
                   tag, event_name)

\* the body of main's loop over iter_active_alert_props()
aggregate(a, p) == touch_all(a, county_ugcs(p), ww_tag(p.event), p.event)

\* the membership test made on lower-cased labels
accepts_any_case(allow, p) ==
    allow = {} \/ (p.event # NoText /\ lower(p.event) \in {lower(m) : m \in allow})

\* not ALLOW_EVENTS or ev in ALLOW_EVENTS
accepts(allow, p) == allow = {} \/ p.event \in allow

notFeed == <<ctlVars, layer, by_state, queryVars, mainVars, updates, applyVars>>

\* while url: data = get_json(url)
feed_read ==
    /\ pc = "feed_loop"
    /\ url # NoUrl
    /\ reads' = IF Bounded THEN reads + 1 ELSE reads
    /\ \/ /\ raise("alerts")
          /\ UNCHANGED <<data, idx, pages, pageLog>>
       \/ \E n \in 0..FeaturesCap, nx \in NextLinks :
          /\ Bounded => (nx # NoUrl => pages + 1 < PagesCap)
          /\ data' = [n |-> n, next |-> nx]
          /\ idx' = 0
          /\ pages' = IF Bounded THEN pages + 1 ELSE pages
          /\ pageLog' = IF KeepLogs THEN Append(pageLog, [n |-> n, next |-> nx])
                        ELSE pageLog
          /\ pc' = "feed_page"
          /\ raisedBy' = raisedBy
    /\ UNCHANGED <<url, visitLog, feedLog, cur, alertVars, notFeed>>

\* the next feature of the page: filtered, yielded to main's loop, aggregated
alert_step ==
    /\ pc = "feed_page"
    /\ idx < data.n
    /\ \E p \in AlertPool :
          /\ cur' = p
          /\ IF accepts(allow_events, p)
             THEN /\ agg' = aggregate(agg, p)
                  /\ seenTokens' = IF KeepLogs THEN seenTokens \cup Range(ugcs_of(p))
                                    ELSE seenTokens
                  /\ yielded' = IF KeepRecords THEN Append(yielded, p)
                                 ELSE yielded
             ELSE UNCHANGED <<agg, seenTokens, yielded>>
          /\ feedLog' = IF KeepRecords THEN Append(feedLog, p) ELSE feedLog
    /\ idx' = idx + 1
    /\ visitLog' = IF KeepLogs THEN Append(visitLog, <<pages, idx + 1>>)
                   ELSE visitLog
    /\ UNCHANGED <<pc, url, data, pages, pageLog, reads, raisedBy, notFeed>>

\* the cursor taken before the last feature of the page is done
feed_advance_early ==
    /\ pc = "feed_page"
    /\ idx >= data.n - 1
    /\ url' = data.next
    /\ pc' = "feed_loop"
    /\ UNCHANGED <<data, idx, pages, pageLog, visitLog, feedLog, cur, alertVars, reads,
                   raisedBy, notFeed>>

\* the cursor set back to the start URL when the page has no next link
feed_advance_restart ==
    /\ pc = "feed_page"
    /\ idx = data.n
    /\ url' = IF data.next = NoUrl THEN StartUrl ELSE data.next
    /\ pc' = "feed_loop"
    /\ UNCHANGED <<data, idx, pages, pageLog, visitLog, feedLog, cur, alertVars, reads,
                   raisedBy, notFeed>>

\* the features are done: url = data.get("pagination", {}).get("next")
feed_advance ==
    /\ pc = "feed_page"
    /\ idx = data.n
    /\ url' = data.next
    /\ pc' = "feed_loop"
    /\ UNCHANGED <<data, idx, pages, pageLog, visitLog, feedLog, cur, alertVars, reads,
                   raisedBy, notFeed>>

\* the generator is exhausted and its frame gone; main's p is not read
\* again; main goes on to query_all(...)
feed_done ==
    /\ pc = "feed_loop"
    /\ url = NoUrl
    /\ pc' = "query_loop"
    /\ data' = NoPage
    /\ idx' = 0
    /\ cur' = NoRecord
    /\ UNCHANGED <<url, pages, pageLog, visitLog, feedLog, alertVars, reads, raisedBy,
                   notFeed>>

(***************************************************************************)
(* The rows of the region store: row r has object id r; its ugc, state and *)
(* name are text or absent.                                                *)
(***************************************************************************)
Region(ugc, state, name) == [ugc |-> ugc, STATE_ABBR |-> state, NAME |-> name]

S_TX == <<"T","X">>
S_tx == <<"t","x">>
N_DeWitt == <<"D","e"," ","W","i","t","t"," ","C","o","u","n","t","y">>

SummaryRegions ==
    IF scope = "summary"
    THEN {Region(u, S_TX, N_DeWitt) : u \in {TXC, AKC, TXZ, NoText, <<>>}}
    ELSE {Region(u, S_TX, N_DeWitt) : u \in {TXC, AKC, NoText}}

\* "; ".join(names), whatever names holds
names_field_always_join(names) == join(<<";", " ">>, names)

\* "; ".join(names) if names else None
names_field(names) == IF names # <<>> THEN join(<<";", " ">>, names) ELSE NoText

\* status_level with the watch test first
status_level_watch_first(warning_count, watch_count) ==
    IF watch_count > 0 THEN 1 ELSE (IF warning_count > 0 THEN 2 ELSE 0)

\* 2 if warning_count > 0 else (1 if watch_count > 0 else 0)
status_level_of(warning_count, watch_count) ==
    IF warning_count > 0 THEN 2 ELSE (IF watch_count > 0 THEN 1 ELSE 0)

\* rec = agg.get(ugc, {"warn": set(), "watch": set(), "adv": set()})
rec_of(a, ugc) == IF ugc \in DOMAIN a THEN a[ugc] ELSE EmptyRec

\* building the update raises TypeError: None among the labels to sort or join
summary_raises(rec) ==
    \E S \in {rec.warn, rec.watch, rec.adv} :
        sorted_raises(S) \/ join_raises(sorted(S))

\* the dict appended to updates for the record of row oid
summary_update(rec, oid) ==
    LET warning_names == sorted(rec.warn)
        watch_names == sorted(rec.watch)
        adv_names == sorted(rec.adv)
    IN  [oid |-> oid,
         status_level |-> status_level_of(Len(warning_names), Len(watch_names)),
         warning_count |-> Len(warning_names),
         warning_names |-> names_field(warning_names),
         watch_count |-> Len(watch_names),
         watch_names |-> names_field(watch_names),
         advisory_count |-> Len(adv_names),
         advisory_names |-> names_field(adv_names),
         last_updated |-> "now"]

\* query_all yields the next feature; main's loop body builds its update
summary_step ==
    /\ pc = "query_page"
    /\ driver = "summary"
    /\ qidx < qdata
    /\ \E a \in SummaryRegions :
          /\ cur' = [row |-> offset + qidx + 1, attributes |-> a]
          /\ IF summary_raises(rec_of(agg, a.ugc))
             THEN /\ raise("TypeError")
                  /\ UNCHANGED updates
             ELSE /\ updates' = Append(updates,
                        summary_update(rec_of(agg, a.ugc), offset + qidx + 1))
                  /\ UNCHANGED <<pc, raisedBy>>
    /\ qidx' = qidx + 1
    /\ county_count' = county_count + 1
    /\ UNCHANGED <<offset, qdata, queryLog, matched_count, printed>>
    /\ UNCHANGED <<ctlVars, layer, reads, cursorVars, alertVars, by_state,
                   applyVars>>

SummaryBatch == 500

\* if not updates: return; else apply_updates(..., updates, batch=500, ...);
\* the loop variable f is not read again
summary_finish ==
    /\ pc = "after_query"
    /\ driver = "summary"
    /\ IF updates = <<>>
       THEN /\ pc' = "done"
            /\ UNCHANGED applyVars
       ELSE /\ pc' = "apply_loop"
            /\ batch' = SummaryBatch
            /\ k' = 1
            /\ total' = 0
            /\ UNCHANGED <<js, result, submitted, respLog, sleeps>>
    /\ cur' = NoRecord
    /\ UNCHANGED <<ctlVars, layer, reads, raisedBy, cursorVars, alertVars,
                   by_state, queryVars, mainVars, updates>>

(***************************************************************************)
(* one_time_enrich_ugc_public.py                                           *)
(***************************************************************************)
\* str.upper(), one character
upper_char(c) ==
    IF \E i \in 1..26 : LowerCase[i] = c
    THEN UpperCase[CHOOSE i \in 1..26 : LowerCase[i] = c]
    ELSE c

\* str.upper()
upper(s) == [i \in 1..Len(s) |-> upper_char(s[i])]

\* \w of re: a letter, a digit or the underscore
is_word_char(c) ==
    \/ \E i \in 1..26 : c = LowerCase[i] \/ c = UpperCase[i]
    \/ \E i \in 1..10 : c = Digits[i]
    \/ c = "_"

\* [a-z0-9]
is_lower_alnum(c) ==
    \/ \E i \in 1..26 : c = LowerCase[i]
    \/ \E i \in 1..10 : c = Digits[i]

\* the alternatives of the suffix pattern, in the pattern's order
Suffixes == << <<"c","o","u","n","t","y">>, <<"p","a","r","i","s","h">>, <<"b","o","r","o","u","g","h">>, <<"c","i","t","y">>,
              <<"c","e","n","s","u","s"," ","a","r","e","a">>, <<"m","u","n","i","c","i","p","a","l","i","t","y">> >>

\* \b between s[i-1] and s[i]: exactly one of the two is a word character
boundary(s, i) ==
    (i > 1 /\ i - 1 <= Len(s) /\ is_word_char(s[i - 1]))
        # (i >= 1 /\ i <= Len(s) /\ is_word_char(s[i]))

\* the pattern \b(...)\b matches at s[i] with alternative w
suffix_at(s, i, w) ==
    /\ starts_at(s, i, w)
    /\ boundary(s, i)
    /\ boundary(s, i + Len(w))

\* re.sub(r"\b(county|...)\b", "", s), scanning from s[i]
RECURSIVE strip_suffixes(_, _)
strip_suffixes(s, i) ==
    IF i > Len(s) THEN <<>>
    ELSE IF \E j \in 1..Len(Suffixes) : suffix_at(s, i, Suffixes[j])
    THEN LET j == CHOOSE j \in 1..Len(Suffixes) :
                    /\ suffix_at(s, i, Suffixes[j])
                    /\ \A h \in 1..(j - 1) : ~suffix_at(s, i, Suffixes[h])
         IN  strip_suffixes(s, i + Len(Suffixes[j]))
    ELSE <<s[i]>> \o strip_suffixes(s, i + 1)

\* s.replace(old, new), scanning from s[i]
RECURSIVE replace(_, _, _, _)
replace(s, old, new, i) ==
    IF i > Len(s) THEN <<>>
    ELSE IF starts_at(s, i, old) THEN new \o replace(s, old, new, i + Len(old))
    ELSE <<s[i]>> \o replace(s, old, new, i + 1)

\* re.sub(r"[^a-z0-9]+", "", s)
strip_non_alnum(s) == SelectSeq(s, is_lower_alnum)

\* slug
slug(s) == strip_non_alnum(lower(IF s = NoText THEN <<>> ELSE s))

\* normalize_name
normalize_name(name) ==
    IF name = NoText \/ name = <<>> THEN <<>>
    ELSE LET n1 == strip_suffixes(lower(name), 1)
             n2 == replace(n1, <<"s","a","i","n","t"," ">>, <<"s","t"," ">>, 1)
             n3 == replace(n2, <<"s","a","i","n","t","e"," ">>, <<"s","t","e"," ">>, 1)
         IN  strip_non_alnum(n3)

(***************************************************************************)
(* The zone records the zone feed can deliver.                             *)
(***************************************************************************)
Zone(type, id, state, name) ==
    [type |-> type, id |-> id, state |-> state, name |-> name]

Z_DeWitt == <<"D","e","W","i","t","t">>
Z_StMary == <<"S","t","."," ","M","a","r","y">>
N_SaintMary == <<"S","a","i","n","t"," ","M","a","r","y"," ","P","a","r","i","s","h">>
N_Harris == <<"H","a","r","r","i","s"," ","C","o","u","n","t","y">>
S_LA == <<"L","A">>
TXC2 == <<"T","X","C","1","2","3">>
LAC == <<"L","A","C","1","0","1">>

N_Lee == <<"L","e","e">>
N_LeeDot == <<"L","e","e",".">>

AllZones ==
    { Zone("county", TXC, S_tx, N_Lee),
      Zone("county", TXC2, S_TX, N_LeeDot),
      Zone("county", LAC, S_LA, N_Lee),
      Zone("county", NoText, S_TX, N_Lee),
      Zone("forecast", LAC, S_TX, N_Lee) }

FewZones ==
    { Zone("county", TXC, S_tx, Z_DeWitt),
      Zone("county", LAC, S_LA, Z_StMary),
      Zone("forecast", TXC2, S_TX, Z_DeWitt) }

\* zones for the runs that are about the cursor only
PlainZones ==
    { Zone("county", TXC, S_TX, <<"L","e","e">>),
      Zone("county", NoText, S_TX, Z_DeWitt),
      Zone("forecast", TXC2, S_TX, Z_DeWitt) }

ZonePool ==
    IF scope = "zones" THEN AllZones
    ELSE IF scope = "unbounded" THEN PlainZones
    ELSE FewZones

\* ugc and state and name
truthy(t) == t # NoText /\ t # <<>>

\* by_state.setdefault(state.upper(), {}).setdefault(key, ugc)
index_put_first_wins(idx0, state, key, ugc) ==
    LET st == upper(state)
        old == IF st \in DOMAIN idx0 THEN idx0[st] ELSE <<>>
    IN  [s \in DOMAIN idx0 \cup {st} |->
            IF s = st
            THEN [n \in DOMAIN old \cup {key} |->
                    IF n \in DOMAIN old THEN old[n] ELSE ugc]
            ELSE idx0[s]]

\* by_state.setdefault(state.upper(), {})[key] = ugc
index_put(idx0, state, key, ugc) ==
    LET st == upper(state)
        old == IF st \in DOMAIN idx0 THEN idx0[st] ELSE <<>>
    IN  [s \in DOMAIN idx0 \cup {st} |->
            IF s = st
            THEN [n \in DOMAIN old \cup {key} |-> IF n = key THEN ugc ELSE old[n]]
            ELSE idx0[s]]

\* the body of build_zone_index's loop over feats
zone_insert(idx0, z) ==
    IF z.type # "county" THEN idx0
    ELSE IF ~(truthy(z.id) /\ truthy(z.state) /\ truthy(z.name)) THEN idx0
    ELSE index_put(idx0, z.state, normalize_name(z.name), z.id)

notZone == <<ctlVars, layer, alertVars, queryVars, mainVars, updates, applyVars>>

\* while url: data = get_json(url); feats = data.get("features", [])
zone_read ==
    /\ pc = "zone_loop"
    /\ url # NoUrl
    /\ reads' = IF Bounded THEN reads + 1 ELSE reads
    /\ \/ /\ raise("zones")
          /\ UNCHANGED <<data, idx, pages, pageLog>>
       \/ \E n \in 0..FeaturesCap, nx \in NextLinks :
          /\ Bounded => (nx # NoUrl => pages + 1 < PagesCap)
          /\ scope = "zones" => Len(feedLog) + n <= MaxZoneRecords
          /\ data' = [n |-> n, next |-> nx]
          /\ idx' = 0
          /\ pages' = IF Bounded THEN pages + 1 ELSE pages
          /\ pageLog' = IF KeepLogs THEN Append(pageLog, [n |-> n, next |-> nx])
                        ELSE pageLog
          /\ pc' = "zone_page"
          /\ raisedBy' = raisedBy
    /\ UNCHANGED <<url, visitLog, feedLog, cur, by_state, notZone>>

\* the next zone of the page
zone_step ==
    /\ pc = "zone_page"
    /\ idx < data.n
    /\ \E z \in ZonePool :
          /\ cur' = z
          /\ by_state' = zone_insert(by_state, z)
          /\ feedLog' = IF KeepRecords THEN Append(feedLog, z) ELSE feedLog
    /\ idx' = idx + 1
    /\ visitLog' = IF KeepLogs THEN Append(visitLog, <<pages, idx + 1>>)
                   ELSE visitLog
    /\ UNCHANGED <<pc, url, data, pages, pageLog, reads, raisedBy, notZone>>

\* the zones are done: url = data.get("pagination", {}).get("next")
zone_advance ==
    /\ pc = "zone_page"
    /\ idx = data.n
    /\ url' = data.next
    /\ pc' = "zone_loop"
    /\ UNCHANGED <<data, idx, pages, pageLog, visitLog, feedLog, cur, by_state, reads,
                   raisedBy, notZone>>

\* the while loop ends: return by_state, the other locals are gone; main
\* goes on to query_all(...)
zone_done ==
    /\ pc = "zone_loop"
    /\ url = NoUrl
    /\ pc' = "query_loop"
    /\ data' = NoPage
    /\ idx' = 0
    /\ cur' = NoRecord
    /\ UNCHANGED <<url, pages, pageLog, visitLog, feedLog, by_state, reads, raisedBy,
                   notZone>>

(***************************************************************************)
(* The region rows the enrichment reads.                                   *)
(***************************************************************************)
FewRegions ==
    { Region(NoText, S_TX, N_DeWitt),
      Region(NoText, S_LA, N_Harris),
      Region(TXC, S_TX, N_DeWitt),
      Region(NoText, NoText, N_DeWitt) }

AllRegions ==
    { Region(NoText, S_TX, N_DeWitt),
      Region(<<>>, S_tx, Z_DeWitt),
      Region(NoText, S_LA, N_SaintMary),
      Region(NoText, S_TX, N_Harris),
      Region(TXC, S_TX, N_DeWitt),
      Region(NoText, NoText, N_DeWitt),
      Region(NoText, S_TX, NoText),
      Region(NoText, S_TX, <<>>) }

EnrichRegions == IF scope = "match" THEN AllRegions ELSE FewRegions

\* zone_index.get(state, {}).get(key)
lookup(idx0, state, key) ==
    IF state \in DOMAIN idx0 /\ key \in DOMAIN idx0[state]
    THEN idx0[state][key]
    ELSE NoText

\* a.get(FIELD_STATE_ABBR) or "", as stored
state_of_as_stored(a) == IF a.STATE_ABBR = NoText THEN <<>> ELSE a.STATE_ABBR

\* (a.get(FIELD_STATE_ABBR) or "").upper()
state_of(a) == upper(IF a.STATE_ABBR = NoText THEN <<>> ELSE a.STATE_ABBR)

\* query_all yields the next feature; main's loop body matches it
enrich_step ==
    /\ pc = "query_page"
    /\ driver = "enrich"
    /\ qidx < qdata
    /\ \E a \in EnrichRegions :
          LET row == offset + qidx + 1
              key == normalize_name(a.NAME)
              ugc == lookup(by_state, state_of(a), key)
          IN  /\ cur' = [row |-> row, attributes |-> a]
              /\ IF truthy(a.ugc)
                 THEN UNCHANGED <<matched_count, updates, printed>>
                 ELSE IF ~(truthy(state_of(a)) /\ truthy(a.NAME))
                 THEN UNCHANGED <<matched_count, updates, printed>>
                 ELSE IF truthy(ugc)
                 THEN /\ matched_count' = matched_count + 1
                      /\ updates' = Append(updates, [oid |-> row, ugc |-> ugc])
                      /\ UNCHANGED printed
                 ELSE /\ printed' = Append(printed,
                            [row |-> row, line |-> "NO MATCH",
                             state |-> state_of(a), raw_name |-> a.NAME,
                             key |-> key])
                      /\ UNCHANGED <<matched_count, updates>>
    /\ qidx' = qidx + 1
    /\ county_count' = county_count + 1
    /\ UNCHANGED <<pc, raisedBy, offset, qdata, queryLog>>
    /\ UNCHANGED <<ctlVars, layer, reads, cursorVars, alertVars, by_state,
                   applyVars>>

\* if not updates: return; else apply_updates(url, updates): the batch size
\* is the default of apply_updates, which the source does not show
enrich_finish ==
    /\ pc = "after_query"
    /\ driver = "enrich"
    /\ IF updates = <<>>
       THEN /\ pc' = "done"
            /\ UNCHANGED applyVars
       ELSE /\ pc' = "apply_loop"
            /\ \E n \in 1..MaxBatch : batch' = n
            /\ k' = 1
            /\ total' = 0
            /\ UNCHANGED <<js, result, submitted, respLog, sleeps>>
    /\ cur' = NoRecord
    /\ UNCHANGED <<ctlVars, layer, reads, raisedBy, cursorVars, alertVars,
                   by_state, queryVars, mainVars, updates>>

(***************************************************************************)
(* Specifications.                                                         *)
(***************************************************************************)
BlankCtl(d, sc) ==
    /\ driver = d
    /\ scope = sc
    /\ allow_events = {}
    /\ reads = 0
    /\ raisedBy = ""

BlankCursor ==
    /\ data = NoPage
    /\ idx = 0
    /\ pages = 0
    /\ pageLog = <<>>
    /\ visitLog = <<>>
    /\ feedLog = <<>>
    /\ cur = NoRecord

BlankAlerts ==
    /\ agg = <<>>
    /\ seenTokens = {}
    /\ yielded = <<>>

BlankStore ==
    /\ store_n = 0
    /\ page_cap = 1

BlankQuery ==
    /\ offset = 0
    /\ qdata = 0
    /\ qidx = 0
    /\ queryLog = <<>>
    /\ county_count = 0
    /\ matched_count = 0
    /\ printed = <<>>

BlankApply ==
    /\ k = 1
    /\ total = 0
    /\ js = None
    /\ result = None
    /\ submitted = <<>>
    /\ respLog = <<>>
    /\ sleeps = 0

\* main before pick_polygon_layer has returned
NoLayer == [id |-> -1, oid_field |-> None]

PickedLayer == [id |-> 0, oid_field |-> "OBJECTID"]

(***************************************************************************)
(* apply_updates on its own: any list of up to MaxUpdates records and any  *)
(* batch size up to MaxBatch (0 included: the code accepts it).            *)
(***************************************************************************)
InitApply ==
    /\ pc = "apply_loop"
    /\ BlankCtl("none", "apply")
    /\ layer = NoLayer
    /\ url = NoUrl
    /\ BlankCursor /\ BlankAlerts /\ by_state = <<>> /\ BlankStore
    /\ BlankQuery /\ BlankApply
    /\ \E N \in 0..MaxUpdates : updates = [i \in 1..N |-> i]
    /\ \E n \in 0..MaxBatch : batch = n

NextApply ==
    \/ apply_submit
    \/ apply_inspect
    \/ apply_sleep
    \/ apply_return

SpecApply == InitApply /\ [][NextApply]_vars

(***************************************************************************)
(* The alert feed on its own: iter_active_alert_props driving the          *)
(* aggregation loop of main, over every alert of AllAlerts.                *)
(***************************************************************************)
InitAlerts ==
    /\ pc = "feed_loop"
    /\ BlankCtl("summary", "alerts")
    /\ layer = PickedLayer
    /\ url = "alerts"
    /\ BlankCursor /\ BlankAlerts /\ by_state = <<>> /\ BlankStore
    /\ BlankQuery /\ BlankApply
    /\ updates = <<>>
    /\ batch = 0

NextAlerts ==
    \/ feed_read
    \/ alert_step
    \/ feed_advance
    \/ feed_done

SpecAlerts == InitAlerts /\ [][NextAlerts]_vars


(***************************************************************************)
(* The alert feed under every allow-list of AllowLists, with the records   *)
(* delivered and the alerts yielded kept in order.                         *)
(***************************************************************************)
InitFilter ==
    /\ pc = "feed_loop"
    /\ driver = "summary"
    /\ scope = "filter"
    /\ allow_events \in AllowLists
    /\ reads = 0
    /\ raisedBy = ""
    /\ layer = PickedLayer
    /\ url = "alerts"
    /\ BlankCursor /\ BlankAlerts /\ by_state = <<>> /\ BlankStore
    /\ BlankQuery /\ BlankApply
    /\ updates = <<>>
    /\ batch = 0

NextFilter ==
    \/ feed_read
    \/ alert_step
    \/ feed_advance
    \/ feed_done

SpecFilter == InitFilter /\ [][NextFilter]_vars

(***************************************************************************)
(* normalize_name on its own: called on a name, then on its own result.    *)
(* The names are up to MaxNameParts pieces of NameParts put together.      *)
(***************************************************************************)
MaxNameParts == 3

NameParts ==
    { <<"c","o">>, <<" ">>, <<"u","n","t","y">>, <<"C","o","u","n","t","y">>, <<"S","a","i","n","t">>, <<"M","a","r","y">>, <<"-">>, <<"S","t",".">> }

RECURSIVE Names(_)
Names(n) ==
    IF n = 0 THEN {<<>>}
    ELSE Names(n - 1) \cup {x \o part : x \in Names(n - 1), part \in NameParts}

InitNormalize ==
    /\ pc = "normalize_start"
    /\ BlankCtl("enrich", "normalize")
    /\ layer = PickedLayer
    /\ url = NoUrl
    /\ data = NoPage /\ idx = 0 /\ pages = 0 /\ pageLog = <<>>
    /\ visitLog = <<>> /\ feedLog = <<>>
    /\ \E x \in Names(MaxNameParts) : cur = [name |-> x]
    /\ BlankAlerts /\ by_state = <<>> /\ BlankStore
    /\ BlankQuery /\ BlankApply
    /\ updates = <<>>
    /\ batch = 0

\* key = normalize_name(name)
normalize_call ==
    /\ pc = "normalize_start"
    /\ cur' = [name |-> cur.name, once |-> normalize_name(cur.name)]
    /\ pc' = "normalize_once"
    /\ UNCHANGED <<ctlVars, layer, reads, raisedBy, cursorVars, alertVars,
                   by_state, queryVars, mainVars, updates, applyVars>>

\* normalize_name(key)
normalize_again ==
    /\ pc = "normalize_once"
    /\ cur' = [name |-> cur.name, once |-> cur.once,
               twice |-> normalize_name(cur.once)]
    /\ pc' = "normalize_twice"
    /\ UNCHANGED <<ctlVars, layer, reads, raisedBy, cursorVars, alertVars,
                   by_state, queryVars, mainVars, updates, applyVars>>

NextNormalize ==
    \/ normalize_call
    \/ normalize_again

SpecNormalize == InitNormalize /\ [][NextNormalize]_vars

(***************************************************************************)
(* build_zone_index on its own, over every zone of AllZones, with the      *)
(* records delivered kept in order.                                        *)
(***************************************************************************)
InitZones ==
    /\ pc = "zone_loop"
    /\ BlankCtl("enrich", "zones")
    /\ layer = PickedLayer
    /\ url = "zones"
    /\ BlankCursor /\ BlankAlerts /\ by_state = <<>> /\ BlankStore
    /\ BlankQuery /\ BlankApply
    /\ updates = <<>>
    /\ batch = 0

NextZones ==
    \/ zone_read
    \/ zone_step
    \/ zone_advance
    \/ zone_done

SpecZones == InitZones /\ [][NextZones]_vars

(***************************************************************************)
(* The two cursor loops on their own (iter_active_alert_props with main's  *)
(* loop, and build_zone_index), with their histories, over feeds of up to  *)
(* MaxPages pages.                                                         *)
(***************************************************************************)
InitFeeds ==
    /\ \E d \in {"summary", "enrich"} :
          /\ BlankCtl(d, "feeds")
          /\ pc = IF d = "summary" THEN "feed_loop" ELSE "zone_loop"
          /\ url = IF d = "summary" THEN "alerts" ELSE "zones"
    /\ layer = PickedLayer
    /\ BlankCursor /\ BlankAlerts /\ by_state = <<>> /\ BlankStore
    /\ BlankQuery /\ BlankApply
    /\ updates = <<>>
    /\ batch = 0

NextFeeds ==
    \/ feed_read
    \/ alert_step
    \/ feed_advance
    \/ feed_done
    \/ zone_read
    \/ zone_step
    \/ zone_advance
    \/ zone_done

SpecFeeds == InitFeeds /\ [][NextFeeds]_vars

(***************************************************************************)
(* The two cursor loops against feeds of any length: pagination.next may   *)
(* name the start URL again, and may never be absent.  The program is      *)
(* sequential and always takes its next step, hence the weak fairness.     *)
(***************************************************************************)
InitUnbounded ==
    /\ \E d \in {"summary", "enrich"} :
          /\ BlankCtl(d, "unbounded")
          /\ pc = IF d = "summary" THEN "feed_loop" ELSE "zone_loop"
          /\ url = IF d = "summary" THEN "alerts" ELSE "zones"
    /\ layer = PickedLayer
    /\ BlankCursor /\ BlankAlerts /\ by_state = <<>> /\ BlankStore
    /\ BlankQuery /\ BlankApply
    /\ updates = <<>>
    /\ batch = 0

NextUnbounded ==
    \/ feed_read
    \/ alert_step
    \/ feed_advance
    \/ feed_done
    \/ zone_read
    \/ zone_step
    \/ zone_advance
    \/ zone_done

SpecUnbounded ==
    InitUnbounded /\ [][NextUnbounded]_vars /\ WF_vars(NextUnbounded)

(***************************************************************************)
(* The second half of the summary main on its own: query_all and the       *)
(* update built per record, from every aggregation that up to MaxAggAlerts *)
(* alerts of SummaryAlerts leave behind.                                   *)
(***************************************************************************)
MaxAggAlerts == 3

SummaryAlerts ==
    {Alert(e, TRUE, TRUE, <<TXC>>) :
        e \in {L_Both, L_Warn, L_Watch, L_Adv, L_Empty, NoText}}
    \cup {Alert(L_Watch, TRUE, TRUE, <<AKC>>)}

RECURSIVE AggOf(_)
AggOf(alerts) ==
    IF alerts = <<>> THEN <<>>
    ELSE aggregate(AggOf(SubSeq(alerts, 1, Len(alerts) - 1)),
                   alerts[Len(alerts)])

SampleAggs ==
    {AggOf(s) : s \in UNION {[1..n -> SummaryAlerts] : n \in 0..MaxAggAlerts}}

InitSummary ==
    /\ pc = "query_loop"
    /\ BlankCtl("summary", "summary")
    /\ layer = PickedLayer
    /\ url = NoUrl
    /\ BlankCursor
    /\ agg \in SampleAggs
    /\ seenTokens = {}
    /\ yielded = <<>>
    /\ by_state = <<>>
    /\ store_n \in 0..MaxRegions
    /\ page_cap \in 1..MaxCap
    /\ BlankQuery /\ BlankApply
    /\ updates = <<>>
    /\ batch = 0

NextSummary ==
    \/ query_read
    \/ summary_step
    \/ query_next
    \/ summary_finish

SpecSummary == InitSummary /\ [][NextSummary]_vars

(***************************************************************************)
(* The second half of the enrichment main on its own: query_all and the    *)
(* match made per record, over every region of AllRegions and every index  *)
(* that the zones of MatchZones leave behind.                              *)
(***************************************************************************)
MatchZones ==
    << Zone("county", TXC, S_tx, Z_DeWitt),
       Zone("county", LAC, S_LA, Z_StMary) >>

RECURSIVE IndexOf(_)
IndexOf(zones) ==
    IF zones = <<>> THEN <<>>
    ELSE zone_insert(IndexOf(SubSeq(zones, 1, Len(zones) - 1)),
                     zones[Len(zones)])

SampleIndexes == {IndexOf(SubSeq(MatchZones, 1, n)) : n \in 0..Len(MatchZones)}

InitMatch ==
    /\ pc = "query_loop"
    /\ BlankCtl("enrich", "match")
    /\ layer = PickedLayer
    /\ url = NoUrl
    /\ BlankCursor /\ BlankAlerts
    /\ by_state \in SampleIndexes
    /\ store_n \in 0..MaxRegions
    /\ page_cap \in 1..MaxCap
    /\ BlankQuery /\ BlankApply
    /\ updates = <<>>
    /\ batch = 0

NextMatch ==
    \/ query_read
    \/ enrich_step
    \/ query_next
    \/ enrich_finish

SpecMatch == InitMatch /\ [][NextMatch]_vars

(***************************************************************************)
(* Both drivers from start to end, over the small pools.                   *)
(***************************************************************************)
Init ==
    /\ pc = "main_start"
    /\ \E d \in {"summary", "enrich"} : BlankCtl(d, "drivers")
    /\ layer = NoLayer
    /\ url = NoUrl
    /\ BlankCursor /\ BlankAlerts /\ by_state = <<>>
    /\ store_n \in 0..MaxRegions
    /\ page_cap \in 1..MaxCap
    /\ BlankQuery /\ BlankApply
    /\ updates = <<>>
    /\ batch = 0

Next ==
    \/ pick_polygon_layer
    \/ feed_read
    \/ alert_step
    \/ feed_advance
    \/ feed_done
    \/ zone_read
    \/ zone_step
    \/ zone_advance
    \/ zone_done
    \/ query_read
    \/ query_next
    \/ summary_step
    \/ summary_finish
    \/ enrich_step
    \/ enrich_finish
    \/ apply_submit
    \/ apply_inspect
    \/ apply_sleep
    \/ apply_return

Spec == Init /\ [][Next]_vars

(***************************************************************************)
(* Properties of apply_updates (checked under SpecApply).                  *)
(***************************************************************************)
NumResponses == Len(respLog)

\* every response received so far was results without error
NoHalt == \A i \in 1..NumResponses : respLog[i].shape = "results"

\* the successes marked in the responses to batches 1..n
MarkedUpTo(n) == SumSeq([i \in 1..n |-> respLog[i].marked])

CeilDiv(a, b) == (a + b - 1) \div b

\* C1: once the response to batch k carries an error envelope (with or
\* without a results list) or carries neither an error nor a results list,
\* the function returns the successes of batches 1..k-1 only, and batch k is
\* the last batch ever submitted.
C1_HaltsOnFirstNonOK ==
    /\ \A i \in 1..(NumResponses - 1) : respLog[i].shape = "results"
    /\ (NumResponses >= 1 /\ respLog[NumResponses].shape # "results") =>
          /\ Len(submitted) = NumResponses
          /\ pc \in {"apply_inspect", "returned"}
          /\ total = MarkedUpTo(NumResponses - 1)
          /\ pc = "returned" => result = MarkedUpTo(NumResponses - 1)

C1_Witness ==
    /\ pc = "returned"
    /\ NumResponses = 2
    /\ respLog[2].shape = "error"
    /\ js.hasResults
    /\ respLog[2].marked > 0
    /\ result = respLog[1].marked
    /\ result > 0
    /\ Len(batched(updates, batch)) > 2

\* C2: for batch size n >= 1 the batches submitted are the consecutive
\* n-record slices of the input in order, none empty, only the last possibly
\* shorter; a run that no batch halts makes ceil(N/n) submissions whose
\* concatenation is the input.
C2_ConsecutiveBatches ==
    batch >= 1 =>
      /\ \A i \in 1..Len(submitted) :
            /\ submitted[i] = SubSeq(updates, (i - 1) * batch + 1,
                                     Min(i * batch, Len(updates)))
            /\ Len(submitted[i]) >= 1
            /\ Len(submitted[i]) <= batch
            /\ i < Len(submitted) => Len(submitted[i]) = batch
      /\ (pc = "returned" /\ NoHalt) =>
            /\ Len(submitted) = CeilDiv(Len(updates), batch)
            /\ Flatten(submitted) = updates

C2_Witness ==
    /\ pc = "returned"
    /\ NoHalt
    /\ batch = 3
    /\ Len(updates) = 4
    /\ Len(submitted) = 2
    /\ Len(submitted[2]) = 1

\* C3 as stated: whenever the response inspected carries a results list, the
\* running total grows by the number of its entries marked successful.
C3_AsStated ==
    [][(pc = "apply_inspect" /\ js.hasResults) =>
          total' = total + Marked(js)]_vars

\* C3 (amended): whenever the response inspected carries a results list and
\* no error envelope, the running total grows by exactly the number of its
\* entries marked successful; the running total never decreases; and a run
\* that no batch halts returns the sum of the per-batch success counts.
C3_CountsMarkedSuccesses ==
    [][/\ (pc = "apply_inspect" /\ js.hasResults /\ ~js.error) =>
              total' = total + Marked(js)
       /\ total' >= total
       /\ (pc' = "returned" /\ NoHalt') => result' = MarkedUpTo(NumResponses)'
      ]_vars

C3_Witness ==
    /\ pc = "returned"
    /\ NoHalt
    /\ Len(submitted) = 2
    /\ Len(submitted[1]) = 2
    /\ respLog[1].marked = 1
    /\ respLog[2].marked = 2
    /\ result = 3

(***************************************************************************)
(* Properties of the drivers (checked under Spec).                         *)
(***************************************************************************)
ReadCalls == {"catalog", "alerts", "zones", "query"}

\* the cursor loop has read its last page: one without a next link
FeedDrained == pages >= 1 /\ url = NoUrl /\ pc \notin {"feed_page", "zone_page"}

\* query_all has read the empty page that ends it, past every row
QueryDrained ==
    /\ queryLog # <<>>
    /\ queryLog[Len(queryLog)] = <<store_n, 0>>

\* C4: in both drivers every remote read precedes every remote write: no GET
\* is made once a batch has been submitted, the first submission finds the
\* catalog, the feed and the query pages all read, and a run in which a read
\* raised stops there without any submission.
C4_ReadsPrecedeWrites ==
    /\ [](submitted # <<>> => (layer # NoLayer /\ FeedDrained /\ QueryDrained))
    /\ [](raisedBy \in ReadCalls => (pc = "raised" /\ submitted = <<>>))
    /\ [][reads' # reads => submitted' = <<>>]_vars

C4_Witness ==
    /\ driver = "enrich"
    /\ Len(submitted) = 2
    /\ pages = 2
    /\ Len(queryLog) = 3
    /\ reads >= 6

(***************************************************************************)
(* Properties of the cursor loops (checked under SpecFeeds).               *)
(***************************************************************************)
InPage == pc \in {"feed_page", "zone_page"}
AtLoop == pc \in {"feed_loop", "zone_loop"}
Drained == pc = "query_loop"

\* <<page, index>> of every record of the pages of a log, in feed order
ExpectedVisits(log) ==
    Flatten([p \in 1..Len(log) |-> [i \in 1..log[p].n |-> <<p, i>>]])

\* C5: the cursor loop reads each page once, visits its records in order
\* before it moves on, takes the next URL from the page's pagination.next,
\* and stops after the first page without a next link: over a feed of P
\* pages it makes P reads and visits every record once, in feed order.
C5_OneReadPerPageInOrder ==
    /\ pages = Len(pageLog)
    /\ reads = Len(pageLog) + (IF pc = "raised" THEN 1 ELSE 0)
    /\ \A i \in 1..(Len(pageLog) - 1) : pageLog[i].next # NoUrl
    /\ InPage =>
          /\ data = pageLog[Len(pageLog)]
          /\ visitLog =
                ExpectedVisits(SubSeq(pageLog, 1, Len(pageLog) - 1))
                \o [i \in 1..idx |-> <<Len(pageLog), i>>]
    /\ (AtLoop \/ Drained) =>
          /\ visitLog = ExpectedVisits(pageLog)
          /\ pageLog # <<>> => url = pageLog[Len(pageLog)].next
    /\ Drained =>
          /\ pageLog # <<>>
          /\ pageLog[Len(pageLog)].next = NoUrl

C5_Witness ==
    /\ Drained
    /\ driver = "enrich"
    /\ Len(pageLog) = 2
    /\ pageLog[1].n = 2
    /\ pageLog[2].n = 1
    /\ visitLog = << <<1, 1>>, <<1, 2>>, <<2, 1>> >>
    /\ reads = 2

(***************************************************************************)
(* Termination of the cursor loops (checked under SpecUnbounded).          *)
(***************************************************************************)
\* C6 as stated: whatever the feed, the drain of the fetcher ends (by
\* exhaustion, or by a read that raises).
C6_AsStated == <>(pc \in {"query_loop", "raised"})

\* C6 (amended): once a page without a next link has been read, the drain
\* ends after that page's records; nothing else ends it but a read that
\* raises.
C6_EndsAfterPageWithoutNext ==
    /\ (InPage /\ data.next = NoUrl) ~> Drained
    /\ [][Drained' /\ ~Drained => url = NoUrl]_vars
    /\ [][(AtLoop' /\ InPage) => url' = data.next]_vars

C6_Witness ==
    /\ Drained
    /\ url = NoUrl
    /\ driver = "summary"
    /\ agg # <<>>

(***************************************************************************)
(* Properties of the aggregation (checked under SpecAlerts).               *)
(***************************************************************************)
\* the tier of a label, by the rule of the claim
TierOf(event) ==
    LET text == IF event = NoText THEN <<>> ELSE event
        has(word) == \E i \in 1..Len(text) :
                        /\ i + Len(word) - 1 <= Len(text)
                        /\ \A j \in 1..Len(word) :
                              lower_char(text[i + j - 1]) = word[j]
    IN  IF has(<<"w","a","r","n","i","n","g">>) THEN "warn"
        ELSE IF has(<<"w","a","t","c","h">>) THEN "watch"
        ELSE "adv"

\* the county-equivalent tokens of an alert, by the rule of the claim
CountyTokens(p) ==
    {u \in Range(ugcs_of(p)) : Len(u) >= 3 /\ u[3] = "C"}

RecBefore(u) == IF u \in DOMAIN agg THEN agg[u] ELSE EmptyRec

\* C7: an accepted alert adds its label, for each of its county-equivalent
\* codes, to the set of exactly one tier (warning before watch before
\* advisory, case-insensitively) and leaves the other two sets of that
\* region, and every other region, as they were.
C7_OneTierPerAlert ==
    [][(pc = "feed_page" /\ idx' = idx + 1 /\ accepts(allow_events, cur')) =>
          LET p == cur'
              tier == TierOf(p.event)
          IN  /\ DOMAIN agg' = DOMAIN agg \cup CountyTokens(p)
              /\ \A u \in CountyTokens(p) :
                    /\ agg'[u][tier] = RecBefore(u)[tier] \cup {p.event}
                    /\ \A t \in {"warn", "watch", "adv"} \ {tier} :
                          agg'[u][t] = RecBefore(u)[t]
              /\ \A u \in DOMAIN agg \ CountyTokens(p) : agg'[u] = agg[u]
      ]_vars

C7_Witness ==
    /\ pc = "feed_page"
    /\ idx = 3
    /\ cur = Alert(L_Both, TRUE, TRUE, <<TXC, AKC>>)
    /\ DOMAIN agg = {TXC, AKC}
    /\ agg[TXC] = [warn |-> {L_Both}, watch |-> {L_Watch}, adv |-> {}]
    /\ agg[AKC] = [warn |-> {L_Both}, watch |-> {}, adv |-> {}]

\* C8: the keys of the aggregation are exactly the tokens of accepted
\* alerts that have at least 3 characters, the 3rd being "C"; an alert
\* without geocode or UGC adds no key, and nothing but a failed read raises.
C8_KeysAreCountyTokens ==
    /\ DOMAIN agg = {u \in seenTokens : Len(u) >= 3 /\ u[3] = "C"}
    /\ pc = "raised" => raisedBy = "alerts"
    /\ \A u \in DOMAIN agg : agg[u] # EmptyRec

C8_Witness ==
    /\ pc = "query_loop"
    /\ seenTokens = {AKC, TXZ, CC, LowC}
    /\ DOMAIN agg = {AKC}

(***************************************************************************)
(* Properties of the summary updates (checked under SpecSummary).          *)
(***************************************************************************)
\* the step appends an update
Appends == Len(updates') = Len(updates) + 1

NewUpdate == updates'[Len(updates')]

\* the label sets of the region the step has in hand
NewRec ==
    IF cur'.attributes.ugc \in DOMAIN agg
    THEN agg[cur'.attributes.ugc]
    ELSE [warn |-> {}, watch |-> {}, adv |-> {}]

\* C9: in every update, each count is the size of the region's label set
\* and status_level is 2 if warning_count > 0, else 1 if watch_count > 0,
\* else 0.
C9_StatusLevel ==
    [][Appends =>
          /\ NewUpdate.warning_count = Cardinality(NewRec.warn)
          /\ NewUpdate.watch_count = Cardinality(NewRec.watch)
          /\ NewUpdate.advisory_count = Cardinality(NewRec.adv)
          /\ NewUpdate.status_level =
                (IF NewUpdate.warning_count > 0 THEN 2
                 ELSE IF NewUpdate.watch_count > 0 THEN 1 ELSE 0)
      ]_vars

C9_Witness ==
    \E i, j \in DOMAIN updates :
        /\ updates[i].status_level = 2
        /\ updates[i].warning_count = 1
        /\ updates[i].watch_count = 1
        /\ updates[i].advisory_count = 1
        /\ updates[j].status_level = 0
        /\ updates[j].advisory_count = 0

\* names is the labels of S in ascending order, joined with "; "
IsSortedJoin(names, S) ==
    \E perm \in [1..Cardinality(S) -> S] :
        /\ \A a, b \in 1..Cardinality(S) : a < b => str_less(perm[a], perm[b])
        /\ names = join(<<";", " ">>, perm)

NameFields ==
    { <<NewUpdate.warning_count, NewUpdate.warning_names, NewRec.warn>>,
      <<NewUpdate.watch_count, NewUpdate.watch_names, NewRec.watch>>,
      <<NewUpdate.advisory_count, NewUpdate.advisory_names, NewRec.adv>> }

\* C10 as stated: each names field is None exactly when its count is 0, is
\* otherwise the sorted labels joined with "; ", and is never the empty
\* string.
C10_AsStated ==
    [][Appends =>
          \A f \in NameFields :
              /\ f[2] = NoText <=> f[1] = 0
              /\ f[1] > 0 => IsSortedJoin(f[2], f[3])
              /\ f[2] # <<>>
      ]_vars

\* C10 (amended): each names field is None exactly when its count is 0 and
\* is otherwise the sorted labels joined with "; "; it is the empty string
\* only when the one label of the set is the empty text, never when the
\* set is empty.
C10_NamesOrNone ==
    [][Appends =>
          \A f \in NameFields :
              /\ f[2] = NoText <=> f[1] = 0
              /\ f[1] > 0 => IsSortedJoin(f[2], f[3])
              /\ f[2] = <<>> <=> f[3] = {<<>>}
      ]_vars

C10_Witness ==
    \E i, j \in DOMAIN updates :
        /\ updates[i].advisory_count = 2
        /\ updates[i].advisory_names = <<";"," ","H","e","a","t">>
        /\ updates[i].warning_names = NoText
        /\ updates[i].watch_count = 1
        /\ updates[i].watch_names = <<"F","o","g"," ","w","a","t","c","h">>
        /\ updates[j].advisory_names = NoText

(***************************************************************************)
(* Properties of the allow-list (checked under SpecFilter).                *)
(***************************************************************************)
\* the alerts of a log that the claim's rule lets through
Allowed(log) ==
    SelectSeq(log, LAMBDA p :
        \/ allow_events = {}
        \/ \E m \in allow_events : p.event = m)

\* C11: with an empty allow-list every alert is yielded; with a non-empty
\* one exactly the alerts whose label equals a member are yielded (no
\* case-variant, no alert without label), in the order of the feed; the
\* pages read and the records visited are those of the feed whatever the
\* allow-list.
C11_AllowListExact ==
    /\ yielded = Allowed(feedLog)
    /\ Len(feedLog) = Len(visitLog)
    /\ reads = Len(pageLog) + (IF pc = "raised" THEN 1 ELSE 0)
    /\ (AtLoop \/ Drained) => visitLog = ExpectedVisits(pageLog)
    /\ Drained => pageLog[Len(pageLog)].next = NoUrl

C11_Witness ==
    /\ Drained
    /\ allow_events = {L_Both}
    /\ Len(pageLog) = 2
    /\ feedLog = << Alert(L_BothLower, TRUE, TRUE, <<TXC>>),
                    Alert(L_Both, TRUE, TRUE, <<TXC>>),
                    Alert(NoText, TRUE, TRUE, <<TXC>>),
                    Alert(L_Both, TRUE, TRUE, <<TXC>>) >>
    /\ yielded = << Alert(L_Both, TRUE, TRUE, <<TXC>>),
                    Alert(L_Both, TRUE, TRUE, <<TXC>>) >>

(***************************************************************************)
(* Properties of normalize_name (checked under SpecNormalize).             *)
(***************************************************************************)
\* C12: normalize_name is idempotent: normalizing the result of
\* normalize_name gives that result again, for every name.
C12_Idempotent ==
    pc = "normalize_twice" => cur.twice = cur.once

(***************************************************************************)
(* Properties of the zone index (checked under SpecZones).                 *)
(***************************************************************************)
Present(t) == t # NoText /\ t # <<>>

\* a zone record the index takes: a county with code, group key and name
AcceptedZone(z) ==
    z.type = "county" /\ Present(z.id) /\ Present(z.state) /\ Present(z.name)

PairOf(z) == <<upper(z.state), normalize_name(z.name)>>

\* the places of the feed where an accepted record has the pair
PlacesOf(pair) ==
    {i \in 1..Len(feedLog) :
        AcceptedZone(feedLog[i]) /\ PairOf(feedLog[i]) = pair}

Last(S) == CHOOSE i \in S : \A j \in S : j <= i

\* C13: the index holds, for every (upper-cased group key, normalized
\* name) pair of an accepted zone record of the feed, the code of the last
\* such record in feed order (across pages), and holds nothing else.
C13_LastWriteWins ==
    Drained =>
        /\ \A i \in 1..Len(feedLog) :
              AcceptedZone(feedLog[i]) =>
                  LET pair == PairOf(feedLog[i])
                  IN  /\ pair[1] \in DOMAIN by_state
                      /\ pair[2] \in DOMAIN by_state[pair[1]]
                      /\ by_state[pair[1]][pair[2]]
                            = feedLog[Last(PlacesOf(pair))].id
        /\ \A st \in DOMAIN by_state : \A key \in DOMAIN by_state[st] :
              PlacesOf(<<st, key>>) # {}

C13_Witness ==
    /\ Drained
    /\ Len(pageLog) = 2
    /\ feedLog = << Zone("county", TXC, S_tx, N_Lee),
                    Zone("county", LAC, S_LA, N_Lee),
                    Zone("county", TXC2, S_TX, N_LeeDot) >>
    /\ by_state[S_TX][<<"l","e","e">>] = TXC2
    /\ by_state[S_LA][<<"l","e","e">>] = LAC

(***************************************************************************)
(* Properties of the match (checked under SpecMatch).                      *)
(***************************************************************************)
\* the loop body takes the next region record
RegionStep == pc = "query_page" /\ qidx' = qidx + 1

LacksCode(a) == ~Present(a.ugc)

HasKeyAndName(a) == Present(a.STATE_ABBR) /\ Present(a.NAME)

\* the index maps (upper-cased group key, normalized name) of the record
Hit(a) ==
    /\ upper(a.STATE_ABBR) \in DOMAIN by_state
    /\ normalize_name(a.NAME) \in DOMAIN by_state[upper(a.STATE_ABBR)]

\* C14: for a region record without code and with group key and name, an
\* update is proposed exactly when the index maps (upper-cased group key,
\* normalize_name(name)) to a code, and it carries that code and the row
\* identifier; on a miss no update is proposed and a no-match diagnostic
\* with group key, raw name and key is printed; a record that has a code
\* gets no update.
C14_ExactOnNormalizedKey ==
    [][RegionStep =>
          LET a == cur'.attributes
              row == cur'.row
          IN  /\ (LacksCode(a) /\ HasKeyAndName(a) /\ Hit(a)) =>
                    /\ updates' = Append(updates,
                          [oid |-> row,
                           ugc |-> by_state[upper(a.STATE_ABBR)]
                                           [normalize_name(a.NAME)]])
                    /\ printed' = printed
              /\ (LacksCode(a) /\ HasKeyAndName(a) /\ ~Hit(a)) =>
                    /\ updates' = updates
                    /\ printed' = Append(printed,
                          [row |-> row, line |-> "NO MATCH",
                           state |-> upper(a.STATE_ABBR), raw_name |-> a.NAME,
                           key |-> normalize_name(a.NAME)])
              /\ ~LacksCode(a) => updates' = updates
      ]_vars

C14_Witness ==
    /\ pc = "query_page"
    /\ cur = [row |-> 2, attributes |-> Region(NoText, S_TX, N_DeWitt)]
    /\ updates = << [oid |-> 2, ugc |-> TXC] >>
    /\ Len(printed) = 1
    /\ printed[1].row = 1
    /\ printed[1].key = <<"h","a","r","r","i","s">>

(***************************************************************************)
(* Records with missing fields (checked under Spec).                       *)
(***************************************************************************)
\* C15: a record with a missing field is skipped and never aborts the run:
\* a zone without code, group key or name leaves the index as it was, a
\* region without group key or name gets no update, and in both the loop
\* goes on; and nothing but a failed read or a service without polygon
\* layers ever ends a run by raising, so not an alert without event label.
C15_MissingFieldsNeverAbort ==
    /\ [][(pc = "zone_page" /\ idx' = idx + 1
            /\ ~(Present(cur'.id) /\ Present(cur'.state) /\ Present(cur'.name)))
          => (by_state' = by_state /\ pc' = pc)]_vars
    /\ [][(RegionStep /\ driver = "enrich" /\ ~HasKeyAndName(cur'.attributes))
          => (updates' = updates /\ pc' = pc)]_vars
    /\ [](pc = "raised" => raisedBy \in ReadCalls \cup {"no polygon layers"})

(***************************************************************************)
(* Diagnostics of the match (checked under SpecMatch).                     *)
(***************************************************************************)
\* C16: every region record without code for which no update is proposed
\* gets a diagnostic entry of its own: a no-match entry when the lookup
\* misses, a skip entry when group key or name is absent.
C16_NoSilentDrop ==
    [][(RegionStep /\ LacksCode(cur'.attributes) /\ updates' = updates) =>
          /\ Len(printed') = Len(printed) + 1
          /\ printed'[Len(printed')].row = cur'.row
          /\ HasKeyAndName(cur'.attributes)
                => printed'[Len(printed')].line = "NO MATCH"
      ]_vars

(***************************************************************************)
(* Submissions of apply_updates (checked under SpecApply).                 *)
(***************************************************************************)
\* the submission of a batch failed at transport level
TransportFailed == raisedBy = "applyEdits"

\* C17: no batch is submitted twice; a batch is submitted only when every
\* earlier submission has been answered and its answer processed; a
\* submission that fails at transport level raises to the caller, returns
\* no total, and is the last one.
C17_NoRetryNoOverlap ==
    /\ [](\A i, j \in 1..Len(submitted) :
            i < j => Range(submitted[i]) \cap Range(submitted[j]) = {})
    /\ [](Len(submitted) = Len(respLog) + (IF TransportFailed THEN 1 ELSE 0))
    /\ [][Len(submitted') > Len(submitted) =>
            /\ pc = "apply_loop"
            /\ Len(respLog) = Len(submitted)
            /\ sleeps = Len(submitted)
            /\ Len(submitted') = Len(submitted) + 1]_vars
    /\ [](TransportFailed => (pc = "raised" /\ result = None))
    /\ [][TransportFailed => (submitted' = submitted /\ pc' = "raised")]_vars

C17_Witness ==
    /\ TransportFailed
    /\ Len(batched(updates, batch)) = 3
    /\ Len(submitted) = 2
    /\ Len(respLog) = 1
    /\ sleeps = 1
    /\ total > 0

(***************************************************************************)
(* The pause of apply_updates (checked under SpecApply).                   *)
(***************************************************************************)
\* C18 as stated: one pause follows every batch submitted, so when the
\* function is between batches or has ended, the pauses made are as many
\* as the submissions made.
C18_AsStated ==
    pc \in {"apply_loop", "returned"} => sleeps = Len(submitted)

\* C18 (amended): one pause follows every batch whose response is a
\* results list without error, the last batch included: a run that no
\* batch halts makes as many pauses as submissions; the batch that halts
\* the run, or whose submission raises, is not followed by a pause.
C18_PauseAfterAcceptedBatch ==
    /\ pc = "apply_loop" => sleeps = Len(submitted)
    /\ pc \in {"apply_inspect", "apply_sleep"} => sleeps = Len(submitted) - 1
    /\ (pc = "returned" /\ NoHalt) =>
          /\ sleeps = Len(submitted)
          /\ Len(submitted) = Len(batched(updates, batch))
    /\ (pc = "returned" /\ ~NoHalt) => sleeps = Len(submitted) - 1
    /\ TransportFailed => sleeps = Len(submitted) - 1

C18_Witness ==
    /\ pc = "returned"
    /\ NoHalt
    /\ Len(batched(updates, batch)) = 3
    /\ Len(submitted) = 3
    /\ sleeps = 3

(***************************************************************************)
(* Properties of query_all (checked under SpecMatch).                      *)
(***************************************************************************)
\* the offset asked for in the i-th request, and the records it returned
AskedAt(i) == queryLog[i][1]
Received(i) == queryLog[i][2]

\* the records received in the first n requests
ReceivedIn(n) == SumSeq([i \in 1..n |-> Received(i)])

\* C19: query_all asks for offset 0 and then for the number of records
\* received so far, yields the records of every page once and in order,
\* and makes no request after the first empty page: against a store of N
\* rows it yields rows 1..N once each and ends with the request that
\* finds nothing at offset N.
C19_OffsetsFollowReceived ==
    /\ [](\A i \in 1..Len(queryLog) : AskedAt(i) = ReceivedIn(i - 1))
    /\ [](\A i \in 1..(Len(queryLog) - 1) : Received(i) > 0)
    /\ [](reads = Len(queryLog) + (IF pc = "raised" THEN 1 ELSE 0))
    /\ [][RegionStep =>
            /\ cur'.row = county_count + 1
            /\ county_count' = county_count + 1]_vars
    /\ [](pc = "after_query" =>
            /\ county_count = store_n
            /\ AskedAt(Len(queryLog)) = store_n
            /\ Received(Len(queryLog)) = 0)
    /\ [][(pc \in {"after_query", "done", "apply_loop"}) =>
            /\ queryLog' = queryLog
            /\ county_count' = county_count]_vars

C19_Witness ==
    /\ pc = "after_query"
    /\ store_n = 2
    /\ page_cap = 1
    /\ queryLog = << <<0, 1>>, <<1, 1>>, <<2, 0>> >>
    /\ county_count = 2

\* the update that clears a region's status
IsReset(u) ==
    /\ u.status_level = 0
    /\ u.warning_count = 0 /\ u.watch_count = 0 /\ u.advisory_count = 0
    /\ u.warning_names = NoText /\ u.watch_names = NoText
    /\ u.advisory_names = NoText

\* the updates are those of rows 1, 2, ... in read order
UpdatesInReadOrder == \A i \in 1..Len(updates) : updates[i].oid = i

\* the update built for the record in hand clears it when no alert names
\* the record's region code
QuietRegionIsReset ==
    (/\ driver = "summary"
     /\ cur # NoRecord
     /\ Len(updates) = cur.row
     /\ cur.attributes.ugc \notin DOMAIN agg)
    => IsReset(updates[cur.row])

\* C20: the status-summary driver has built one update per region record
\* read, in read order, and the update of a region that no active alert
\* names (its code absent or unknown included) has status_level 0, the
\* three counts 0 and the three names fields None.
C20_OneUpdatePerRecord ==
    /\ Len(updates) = county_count
    /\ UpdatesInReadOrder
    /\ QuietRegionIsReset

=============================================================================
